---- MODULE Spec2Model ----
(***************************************************************************)
(* A model of the world-state server of cp-mmorpg (src/server.js): the     *)
(* player registry, the sprite catalog with its on-disk folders, the       *)
(* session map, the message dispatcher and the 50 ms game loop.            *)
(*                                                                         *)
(* Numbers.  Player coordinates are JavaScript doubles.  The model keeps   *)
(* them in fixed point, Unit parts per world pixel, and only lets a click  *)
(* through when every step of the pursuit it starts is a whole number of   *)
(* parts (Representable), so that movePlayerTowards is computed exactly.   *)
(* What IEEE rounding adds to the exact result is kept as the flag         *)
(* `inexact` of a player: a coordinate that came out of a step with both a *)
(* horizontal and a vertical component carries a rounding error, and the   *)
(* comparison `dist <= speed` may then go either way when the exact        *)
(* distance equals the speed.                                              *)
(*                                                                         *)
(* Handlers are operators from a store (the mutable globals plus the       *)
(* envelopes sent so far) to a store; an action applies one handler to the *)
(* current state.  `out` holds, per session, the envelopes the last        *)
(* handler sent to it; `ev` names the last handler and its input.          *)
(***************************************************************************)
EXTENDS Integers, Sequences, FiniteSets, TLC

\* ---------------------------------------------------------------- constants
WorldWidth == 4096
WorldHeight == 4096
Footprint == 50
KeySpeed == 15
PursuitSpeed == 3
ClickOffset == 25
MoveFramePeriod == 200
IdleFramePeriod == 1000
FrameCount == 3
ScanFrames == 3
Unit == 5
Null == -1

\* ------------------------------------------------------------------- bounds
MaxMsgs == 3
MaxTime == 1300
MaxInFlight == 2

\* ------------------------------------------------------------------ helpers
IdOrder == <<"a1", "b2">>
Ids == {IdOrder[i] : i \in 1..Len(IdOrder)}
NoId == "null"
Absent == ""
RequiredDirs == <<"north", "south", "east">>
MaxX == (WorldWidth - Footprint) * Unit
MaxY == (WorldHeight - Footprint) * Unit

Abs(v) == IF v < 0 THEN -v ELSE v
Min(a, b) == IF a < b THEN a ELSE b
Max(a, b) == IF a > b THEN a ELSE b

clamp(value, min, max) == Min(Max(value, min), max)

\* (x2 - x1) ** 2 + (y2 - y1) ** 2, the square of distance()
distance2(x1, y1, x2, y2) == (x2 - x1) * (x2 - x1) + (y2 - y1) * (y2 - y1)

\* Math.sqrt, by bisection: the largest r in lo..hi with r * r <= n (exact on the
\* perfect squares, which are all that Representable lets movePlayerTowards meet)
RECURSIVE SqrtBetween(_, _, _)
SqrtBetween(n, lo, hi) ==
    IF lo >= hi THEN lo
    ELSE LET mid == (lo + hi + 1) \div 2
         IN IF mid * mid <= n THEN SqrtBetween(n, mid, hi) ELSE SqrtBetween(n, lo, mid - 1)
Sqrt(n) == SqrtBetween(n, 0, 2 * MaxX)
IsSquare(n) == Sqrt(n) * Sqrt(n) = n

distance(x1, y1, x2, y2) == Sqrt(distance2(x1, y1, x2, y2))

\* ------------------------------------------------------------------- state
VARIABLES
    players,         \* const players = {}: id -> player record
    spriteDatabase,  \* const spriteDatabase = {}: name -> sprite record
    disk,            \* the folders of SPRITES_DIR: name -> [mtime, files]
    connections,     \* const connections = new Map(): id -> ws.readyState
    now,             \* Date.now(), in ms
    writes,          \* the fs.writeFile calls of saveState() still in flight
    playersFile,     \* the content of PLAYERS_FILE
    out,             \* session id -> the envelopes the last handler sent to it
    ev,              \* the last handler run and its input
    nmsg,            \* inbound messages handled so far
    pursuit,         \* per player: where its last click found it, ticks since
    issued,          \* the ids wss.on('connection') has handed out
    lastSave         \* the registry as the most recent saveState() call wrote it

vars == <<players, spriteDatabase, disk, connections, now, writes, playersFile,
          out, ev, nmsg, pursuit, issued, lastSave>>

EmptyMap == [k \in {} |-> 0]
EmptyOut == [i \in Ids |-> <<>>]
Put(f, k, v) == [j \in DOMAIN f \cup {k} |-> IF j = k THEN v ELSE f[j]]

\* The mutable globals a handler reads and writes, with the envelopes sent so far
\* and whether the handler has thrown.
Store == [players |-> players, spriteDatabase |-> spriteDatabase, disk |-> disk,
          connections |-> connections, now |-> now, writes |-> writes,
          out |-> EmptyOut, threw |-> FALSE]

\* ------------------------------------------------------------------ sending
\* broadcast(data, excludePlayerId): to every session of the map that is OPEN
broadcast(S, data, excludePlayerId) ==
    [S EXCEPT !.out = [i \in Ids |->
        IF i \in DOMAIN S.connections /\ i # excludePlayerId /\ S.connections[i] = "OPEN"
        THEN Append(S.out[i], data) ELSE S.out[i]]]

sendToPlayer(S, playerId, data) ==
    IF playerId \in DOMAIN S.connections /\ S.connections[playerId] = "OPEN"
    THEN [S EXCEPT !.out[playerId] = Append(@, data)]
    ELSE S

NoData == [none |-> TRUE]

\* sendResponse(playerId, action, success, responseData = {}, error = null)
sendResponse(S, playerId, action, success, responseData, error) ==
    sendToPlayer(S, playerId,
        [type |-> "response", action |-> action, success |-> success,
         data |-> IF success THEN responseData ELSE NoData,
         error |-> IF ~success /\ error # Absent THEN error ELSE Absent])

\* broadcastUpdate(category, action, updateData, excludePlayerId = null)
broadcastUpdate(S, category, action, updateData, excludePlayerId) ==
    broadcast(S, [type |-> "update", category |-> category, action |-> action,
                  data |-> updateData], excludePlayerId)

\* ----------------------------------------------------------------- movement
\* Whether a pursuit from (x, y) to (tx, ty) at `speed` stays on the fixed-point
\* grid: the distance is a whole number of parts and so is every step.
Representable(x, y, tx, ty, speed) ==
    IF distance2(x, y, tx, ty) = 0 THEN TRUE
    ELSE /\ IsSquare(distance2(x, y, tx, ty))
         /\ ((tx - x) * speed * Unit) % distance(x, y, tx, ty) = 0
         /\ ((ty - y) * speed * Unit) % distance(x, y, tx, ty) = 0

\* dist < speed in place of dist <= speed
WithinStrictly(d2, speed, inexact, roundsUp) == d2 < speed * speed

\* dist <= speed, on the squares.  On an inexact position the comparison of the
\* two doubles goes either way when the exact distance equals the speed:
\* roundsUp says the computed distance came out above it.
Within(d2, speed, inexact, roundsUp) ==
    d2 < speed * speed \/ (d2 = speed * speed /\ ~(inexact /\ roundsUp))

\* player.x += (targetX - player.x) * ratio, with ratio = speed / dist
StepTo(from, to, speed, dist) == from + ((to - from) * speed) \div dist

\* The else branch of movePlayerTowards once the new coordinates are computed:
\* facing from the displacement applied, then the clamp
Stepped(player, newX, newY) ==
    [player EXCEPT
        !.x = clamp(newX, 0, MaxX),
        !.y = clamp(newY, 0, MaxY),
        !.facing = IF Abs(newX - player.x) > Abs(newY - player.y)
                   THEN (IF newX - player.x > 0 THEN "east" ELSE "west")
                   ELSE (IF newY - player.y > 0 THEN "south" ELSE "north"),
        !.isMoving = TRUE,
        !.inexact = @ \/ (newX # player.x /\ newY # player.y)]

\* movePlayerTowards(player, targetX, targetY, speed): the player after the call
\* and the value returned
movePlayerTowards(player, targetX, targetY, speed, roundsUp) ==
    IF Within(distance2(player.x, player.y, targetX, targetY), speed * Unit,
              player.inexact, roundsUp)
    THEN [player |-> [player EXCEPT !.x = targetX, !.y = targetY,
                                    !.isMoving = FALSE, !.inexact = FALSE],
          reached |-> TRUE]
    ELSE [player |-> Stepped(player,
                        StepTo(player.x, targetX, speed * Unit,
                               distance(player.x, player.y, targetX, targetY)),
                        StepTo(player.y, targetY, speed * Unit,
                               distance(player.x, player.y, targetX, targetY))),
          reached |-> FALSE]

\* ---------------------------------------------------------- player handlers
\* `Player${playerId.substr(0, 4)}` (the ids of the model have at most 4 characters)
DefaultUsername(playerId) == "Player" \o playerId

\* A record created with the requested sprite, whether registered or not
NewPlayerUnvalidated(S, playerId, playerInfo, rx, ry) ==
    [id |-> playerId,
     x |-> rx * Unit,
     y |-> ry * Unit,
     sprite |-> IF playerInfo.sprite # Absent THEN playerInfo.sprite ELSE "default",
     facing |-> "south",
     isMoving |-> FALSE,
     username |-> IF playerInfo.username # Absent
                  THEN playerInfo.username ELSE DefaultUsername(playerId),
     targetX |-> Null,
     targetY |-> Null,
     animationFrame |-> 0,
     lastAnimationUpdate |-> S.now,
     inexact |-> FALSE]

\* The record handlePlayerJoin creates; rx, ry are the two Math.floor(
\* Math.random() * ...) draws
NewPlayer(S, playerId, playerInfo, rx, ry) ==
    [id |-> playerId,
     x |-> rx * Unit,
     y |-> ry * Unit,
     sprite |-> IF playerInfo.sprite # Absent /\ playerInfo.sprite \in DOMAIN S.spriteDatabase
                THEN playerInfo.sprite ELSE "default",
     facing |-> "south",
     isMoving |-> FALSE,
     username |-> IF playerInfo.username # Absent
                  THEN playerInfo.username ELSE DefaultUsername(playerId),
     targetX |-> Null,
     targetY |-> Null,
     animationFrame |-> 0,
     lastAnimationUpdate |-> S.now,
     inexact |-> FALSE]

\* The end of handlePlayerJoin: the response with the world state, then the
\* 'joined' update to the others
Joined(S, playerId) ==
    broadcastUpdate(
        sendResponse(S, playerId, "join", TRUE,
                     [playerId |-> playerId, worldState |-> S.players], Absent),
        "player", "joined", [player |-> S.players[playerId]], playerId)

\* handlePlayerJoin allocating a record on every join
handlePlayerJoinReallocating(S, playerId, playerInfo, rx, ry) ==
    IF ~playerInfo.given
    THEN [S EXCEPT !.threw = TRUE]
    ELSE Joined([S EXCEPT !.players =
                    Put(S.players, playerId,
                        NewPlayer(S, playerId, playerInfo, rx, ry))], playerId)

\* handlePlayerJoin(playerId, playerInfo).  playerInfo.given = FALSE is an
\* undefined playerInfo, which the first branch dereferences.
handlePlayerJoin(S, playerId, playerInfo, rx, ry) ==
    IF playerId \notin DOMAIN S.players
    THEN IF ~playerInfo.given
         THEN [S EXCEPT !.threw = TRUE]
         ELSE Joined([S EXCEPT !.players =
                         Put(S.players, playerId,
                             NewPlayer(S, playerId, playerInfo, rx, ry))], playerId)
    ELSE Joined(S, playerId)

\* The frame advanced as soon as the period has passed (>= in place of >)
AdvanceFrameAtPeriod(player, t, period) ==
    IF t - player.lastAnimationUpdate >= period
    THEN [player EXCEPT !.animationFrame = (@ + 1) % FrameCount,
                        !.lastAnimationUpdate = t]
    ELSE player

\* if (now - player.lastAnimationUpdate > period) advance the frame
AdvanceFrame(player, t, period) ==
    IF t - player.lastAnimationUpdate > period
    THEN [player EXCEPT !.animationFrame = (@ + 1) % FrameCount,
                        !.lastAnimationUpdate = t]
    ELSE player

\* The keyboard step without Math.max(0, ...) and Math.min(..., ...)
KeyStepUnclamped(player, direction) ==
    [player EXCEPT
        !.x = CASE direction = "left" -> player.x - KeySpeed * Unit
                [] direction = "right" -> player.x + KeySpeed * Unit
                [] OTHER -> player.x,
        !.y = CASE direction = "up" -> player.y - KeySpeed * Unit
                [] direction = "down" -> player.y + KeySpeed * Unit
                [] OTHER -> player.y,
        !.facing = CASE direction = "up" -> "north"
                     [] direction = "down" -> "south"
                     [] direction = "left" -> "west"
                     [] direction = "right" -> "east"
                     [] OTHER -> player.facing,
        !.isMoving = TRUE,
        !.targetX = Null,
        !.targetY = Null]

\* The keyboard step without player.targetX = null; player.targetY = null
KeyStepKeepingTarget(player, direction) ==
    [player EXCEPT
        !.x = CASE direction = "left" -> Max(0, player.x - KeySpeed * Unit)
                [] direction = "right" -> Min(MaxX, player.x + KeySpeed * Unit)
                [] OTHER -> player.x,
        !.y = CASE direction = "up" -> Max(0, player.y - KeySpeed * Unit)
                [] direction = "down" -> Min(MaxY, player.y + KeySpeed * Unit)
                [] OTHER -> player.y,
        !.facing = CASE direction = "up" -> "north"
                     [] direction = "down" -> "south"
                     [] direction = "left" -> "west"
                     [] direction = "right" -> "east"
                     [] OTHER -> player.facing,
        !.isMoving = TRUE]

\* The switch (movement.direction) and the assignments after it
KeyStep(player, direction) ==
    [player EXCEPT
        !.x = CASE direction = "left" -> Max(0, player.x - KeySpeed * Unit)
                [] direction = "right" -> Min(MaxX, player.x + KeySpeed * Unit)
                [] OTHER -> player.x,
        !.y = CASE direction = "up" -> Max(0, player.y - KeySpeed * Unit)
                [] direction = "down" -> Min(MaxY, player.y + KeySpeed * Unit)
                [] OTHER -> player.y,
        !.facing = CASE direction = "up" -> "north"
                     [] direction = "down" -> "south"
                     [] direction = "left" -> "west"
                     [] direction = "right" -> "east"
                     [] OTHER -> player.facing,
        !.isMoving = TRUE,
        !.targetX = Null,
        !.targetY = Null]

\* The 'moved' update sent with the mover as excludePlayerId
MovedToOthers(S, playerId, player) ==
    broadcastUpdate([S EXCEPT !.players[playerId] = player],
                    "player", "moved", [player |-> player], playerId)

\* The record is stored and broadcastUpdate('player', 'moved', { player }) sent
Moved(S, playerId, player) ==
    broadcastUpdate([S EXCEPT !.players[playerId] = player],
                    "player", "moved", [player |-> player], NoId)

\* handlePlayerMove testing movement.direction before movement.stop
handlePlayerMoveDirectionFirst(S, playerId, movement) ==
    IF playerId \notin DOMAIN S.players THEN S
    ELSE IF ~movement.given THEN [S EXCEPT !.threw = TRUE]
    ELSE IF movement.direction # Absent
    THEN Moved(S, playerId,
               AdvanceFrame(KeyStep(S.players[playerId], movement.direction),
                            S.now, MoveFramePeriod))
    ELSE IF movement.stop
    THEN Moved(S, playerId,
               [S.players[playerId] EXCEPT !.isMoving = FALSE, !.targetX = Null,
                                           !.targetY = Null, !.animationFrame = 0])
    ELSE S

\* handlePlayerMove marking the player as moving as soon as a click is handled
handlePlayerMoveMovingAtOnce(S, playerId, movement) ==
    IF playerId \notin DOMAIN S.players THEN S
    ELSE IF ~movement.given THEN [S EXCEPT !.threw = TRUE]
    ELSE IF movement.stop
    THEN Moved(S, playerId,
               [S.players[playerId] EXCEPT !.isMoving = FALSE, !.targetX = Null,
                                           !.targetY = Null, !.animationFrame = 0])
    ELSE IF movement.direction # Absent
    THEN Moved(S, playerId,
               AdvanceFrame(KeyStep(S.players[playerId], movement.direction),
                            S.now, MoveFramePeriod))
    ELSE IF movement.hasX /\ movement.hasY
    THEN [S EXCEPT
            !.players[playerId].isMoving = TRUE,
            !.players[playerId].targetX =
                clamp(movement.x - ClickOffset, 0, WorldWidth - Footprint) * Unit,
            !.players[playerId].targetY =
                clamp(movement.y - ClickOffset, 0, WorldHeight - Footprint) * Unit]
    ELSE S

\* handlePlayerMove(playerId, movement).  movement.given = FALSE is an undefined
\* movement; direction = Absent, hasX = FALSE, hasY = FALSE are missing fields.
handlePlayerMove(S, playerId, movement) ==
    IF playerId \notin DOMAIN S.players THEN S
    ELSE IF ~movement.given THEN [S EXCEPT !.threw = TRUE]
    ELSE IF movement.stop
    THEN Moved(S, playerId,
               [S.players[playerId] EXCEPT !.isMoving = FALSE, !.targetX = Null,
                                           !.targetY = Null, !.animationFrame = 0])
    ELSE IF movement.direction # Absent
    THEN Moved(S, playerId,
               AdvanceFrame(KeyStep(S.players[playerId], movement.direction),
                            S.now, MoveFramePeriod))
    ELSE IF movement.hasX /\ movement.hasY
    THEN [S EXCEPT
            !.players[playerId].targetX =
                clamp(movement.x - ClickOffset, 0, WorldWidth - Footprint) * Unit,
            !.players[playerId].targetY =
                clamp(movement.y - ClickOffset, 0, WorldHeight - Footprint) * Unit]
    ELSE S

\* The success branch of handlePlayerChangeSprite once the record is changed
Changed(S, playerId, player) ==
    broadcastUpdate(
        sendResponse([S EXCEPT !.players[playerId] = player], playerId,
                     "change_sprite", TRUE, NoData, Absent),
        "player", "changed_sprite", [player |-> player], NoId)

\* handlePlayerChangeSprite without the lookup of spriteDatabase[spriteName]
handlePlayerChangeSpriteUnchecked(S, playerId, spriteName) ==
    IF playerId \in DOMAIN S.players /\ spriteName # Absent
    THEN Changed(S, playerId,
                 [S.players[playerId] EXCEPT !.sprite = spriteName, !.animationFrame = 0])
    ELSE sendResponse(S, playerId, "change_sprite", FALSE, NoData,
                      IF spriteName # Absent
                      THEN "Sprite \"" \o spriteName \o "\" does not exist"
                      ELSE "No sprite specified")

\* handlePlayerChangeSprite(playerId, spriteName)
handlePlayerChangeSprite(S, playerId, spriteName) ==
    IF /\ playerId \in DOMAIN S.players
       /\ spriteName # Absent
       /\ spriteName \in DOMAIN S.spriteDatabase
    THEN Changed(S, playerId,
                 [S.players[playerId] EXCEPT !.sprite = spriteName, !.animationFrame = 0])
    ELSE sendResponse(S, playerId, "change_sprite", FALSE, NoData,
                      IF spriteName # Absent
                      THEN "Sprite \"" \o spriteName \o "\" does not exist"
                      ELSE "No sprite specified")

\* handlePlayerMessage(playerId, data); rx, ry as in NewPlayer
handlePlayerMessage(S, playerId, data, rx, ry) ==
    CASE data.action = "join" -> handlePlayerJoin(S, playerId, data.playerInfo, rx, ry)
      [] data.action = "move" -> handlePlayerMove(S, playerId, data.movement)
      [] data.action = "change_sprite" -> handlePlayerChangeSprite(S, playerId, data.spriteName)
      [] OTHER -> sendResponse(S, playerId,
                               IF data.action # Absent THEN data.action ELSE "unknown",
                               FALSE, NoData, "Unknown player action")

\* ----------------------------------------------------------- sprite catalog
\* `sprites/${spriteName}/${direction}_${frame}.png`
FramePath(spriteName, direction, frame) == <<"sprites", spriteName, direction, frame>>

FramePaths(spriteName, direction, frameNumbers) ==
    [i \in 1..Len(frameNumbers) |-> FramePath(spriteName, direction, frameNumbers[i])]

\* .every(dir => spriteData.frames[dir] && spriteData.frames[dir].length > 0)
hasRequiredSprites(spriteData) ==
    \A i \in 1..Len(RequiredDirs) : Len(spriteData.frames[RequiredDirs[i]]) > 0

\* The frames scanSpritesDirectory finds for one direction of a folder
FoundFrames(folder, spriteName, direction) ==
    FramePaths(spriteName, direction,
               SelectSeq([f \in 1..ScanFrames |-> f],
                         LAMBDA f : <<direction, f>> \in folder.files))

\* The candidate scanSpritesDirectory builds for one folder
ScannedSprite(folder, spriteName) ==
    [name |-> spriteName,
     frames |-> [north |-> FoundFrames(folder, spriteName, "north"),
                 south |-> FoundFrames(folder, spriteName, "south"),
                 east |-> FoundFrames(folder, spriteName, "east"),
                 west |-> FoundFrames(folder, spriteName, "east")],
     lastModified |-> folder.mtime,
     custom |-> FALSE]

\* A scan that skips a folder only if its entry is strictly newer than it
ScanAdmitsUnlessNewer(S, spriteName) ==
    /\ ~(/\ spriteName \in DOMAIN S.spriteDatabase
         /\ S.spriteDatabase[spriteName].lastModified > S.disk[spriteName].mtime)
    /\ hasRequiredSprites(ScannedSprite(S.disk[spriteName], spriteName))

\* Whether scanSpritesDirectory registers the candidate of a folder
ScanAdmits(S, spriteName) ==
    /\ ~(/\ spriteName \in DOMAIN S.spriteDatabase
         /\ S.spriteDatabase[spriteName].lastModified >= S.disk[spriteName].mtime)
    /\ hasRequiredSprites(ScannedSprite(S.disk[spriteName], spriteName))

\* scanSpritesDirectory()
scanSpritesDirectory(S) ==
    [S EXCEPT !.spriteDatabase =
        [n \in DOMAIN S.spriteDatabase \cup {m \in DOMAIN S.disk : ScanAdmits(S, m)} |->
            IF n \in DOMAIN S.disk /\ ScanAdmits(S, n)
            THEN ScannedSprite(S.disk[n], n) ELSE S.spriteDatabase[n]]]

\* The frames addCustomSprite goes through, in order: for each entry of imageData
\* whose key is north, south or east and whose value is an array, its payloads.
RECURSIVE UploadFrames(_)
UploadFrames(entries) ==
    IF entries = <<>> THEN <<>>
    ELSE (IF Head(entries).direction \in {"north", "south", "east"} /\ Head(entries).isArray
          THEN [i \in 1..Len(Head(entries).frames) |->
                  [direction |-> Head(entries).direction, frameNumber |-> i,
                   payload |-> Head(entries).frames[i]]]
          ELSE <<>>) \o UploadFrames(Tail(entries))

\* The frames written before the first whose decoding or writing throws ("bad")
RECURSIVE WrittenBeforeThrow(_)
WrittenBeforeThrow(frames) ==
    IF frames = <<>> \/ Head(frames).payload = "bad" THEN <<>>
    ELSE <<Head(frames)>> \o WrittenBeforeThrow(Tail(frames))

\* The folder of a sprite after mkdirSync (if missing) and the writeFileSync
\* calls: a file created in it moves its modification time
FolderAfter(folder, written, t) ==
    [mtime |-> IF written \subseteq folder.files THEN folder.mtime ELSE t,
     files |-> folder.files \cup written]

WriteFrames(S, spriteName, done) ==
    [S EXCEPT !.disk =
        Put(S.disk, spriteName,
            FolderAfter(IF spriteName \in DOMAIN S.disk THEN S.disk[spriteName]
                        ELSE [mtime |-> S.now, files |-> {}],
                        {<<done[i].direction, done[i].frameNumber>> : i \in 1..Len(done)},
                        S.now))]

\* spriteData.frames[direction] after the loop
UploadedFrames(spriteName, direction, done) ==
    FramePaths(spriteName, direction,
               [i \in 1..Cardinality({k \in 1..Len(done) : done[k].direction = direction})
                   |-> i])

\* A spriteData whose west frames are the ones uploaded as west
UploadedSpriteOwnWest(spriteName, done, t) ==
    [name |-> spriteName,
     frames |-> [north |-> UploadedFrames(spriteName, "north", done),
                 south |-> UploadedFrames(spriteName, "south", done),
                 east |-> UploadedFrames(spriteName, "east", done),
                 west |-> UploadedFrames(spriteName, "west", done)],
     lastModified |-> t,
     custom |-> TRUE]

UploadedSprite(spriteName, done, t) ==
    [name |-> spriteName,
     frames |-> [north |-> UploadedFrames(spriteName, "north", done),
                 south |-> UploadedFrames(spriteName, "south", done),
                 east |-> UploadedFrames(spriteName, "east", done),
                 west |-> UploadedFrames(spriteName, "east", done)],
     lastModified |-> t,
     custom |-> TRUE]

\* An end of addCustomSprite that keeps an entry the name already has
RegisterKeepingPrior(S, spriteName, spriteData) ==
    broadcastUpdate([S EXCEPT !.spriteDatabase =
                        IF spriteName \in DOMAIN S.spriteDatabase THEN S.spriteDatabase
                        ELSE Put(S.spriteDatabase, spriteName, spriteData)],
                    "sprite", "added", [sprite |-> spriteData], NoId)

\* The end of addCustomSprite: the entry, then the 'added' update to everyone
Register(S, spriteName, spriteData) ==
    broadcastUpdate([S EXCEPT !.spriteDatabase = Put(S.spriteDatabase, spriteName, spriteData)],
                    "sprite", "added", [sprite |-> spriteData], NoId)

\* The loop of addCustomSprite over `frames` and what follows it
StoreFrames(S, spriteName, frames, done) ==
    IF Len(done) < Len(frames)
    THEN [WriteFrames(S, spriteName, done) EXCEPT !.threw = TRUE]
    ELSE Register(WriteFrames(S, spriteName, done), spriteName,
                  UploadedSprite(spriteName, done, S.now))

\* addCustomSprite(spriteName, imageData).  spriteName = Absent is an undefined
\* name (path.join throws), imageData.given = FALSE an undefined spriteFrames
\* (Object.entries throws, after the mkdirSync).
addCustomSprite(S, spriteName, imageData) ==
    IF spriteName = Absent THEN [S EXCEPT !.threw = TRUE]
    ELSE IF ~imageData.given THEN [WriteFrames(S, spriteName, <<>>) EXCEPT !.threw = TRUE]
    ELSE StoreFrames(S, spriteName, UploadFrames(imageData.entries),
                     WrittenBeforeThrow(UploadFrames(imageData.entries)))

\* The try / catch around addCustomSprite in handleSpriteMessage
Uploaded(R, playerId, spriteName) ==
    IF R.threw
    THEN sendResponse([R EXCEPT !.threw = FALSE], playerId, "upload", FALSE,
                      NoData, "error.message")
    ELSE sendResponse(R, playerId, "upload", TRUE,
                      [sprite |-> R.spriteDatabase[spriteName]], Absent)

\* handleSpriteMessage(playerId, data)
handleSpriteMessage(S, playerId, data) ==
    CASE data.action = "list" ->
            sendResponse(S, playerId, "list", TRUE, [sprites |-> S.spriteDatabase], Absent)
      [] data.action = "upload" ->
            Uploaded(addCustomSprite(S, data.spriteName, data.spriteFrames),
                     playerId, data.spriteName)
      [] OTHER -> sendResponse(S, playerId,
                               IF data.action # Absent THEN data.action ELSE "unknown",
                               FALSE, NoData, "Unknown sprite action")

\* A switch (data.type) without its default branch
DispatchWithoutDefault(S, playerId, data, rx, ry) ==
    CASE data.type = "sprite" -> handleSpriteMessage(S, playerId, data)
      [] data.type = "player" -> handlePlayerMessage(S, playerId, data, rx, ry)
      [] OTHER -> S

\* The switch (data.type) of ws.on('message')
Dispatch(S, playerId, data, rx, ry) ==
    CASE data.type = "sprite" -> handleSpriteMessage(S, playerId, data)
      [] data.type = "player" -> handlePlayerMessage(S, playerId, data, rx, ry)
      [] OTHER -> sendResponse(S, playerId, "unknown", FALSE, NoData,
                               "Unknown message type: " \o data.type)

\* A catch that logs the error and sends nothing
CaughtSilently(R, playerId) == [R EXCEPT !.threw = FALSE]

\* The catch of ws.on('message')
Caught(R, playerId) ==
    IF R.threw
    THEN sendResponse([R EXCEPT !.threw = FALSE], playerId, "error", FALSE,
                      NoData, "Invalid message format")
    ELSE R

\* ws.on('message'); message.parses = FALSE is a payload JSON.parse rejects
onMessage(S, playerId, message, rx, ry) ==
    IF ~message.parses
    THEN sendResponse(S, playerId, "error", FALSE, NoData, "Invalid message format")
    ELSE Caught(Dispatch(S, playerId, message, rx, ry), playerId)

\* ---------------------------------------------------------------- game loop
\* The branch of the loop body taken after movePlayerTowards returned m
AfterPursuit(m, t) ==
    [player |-> IF m.reached
                THEN [m.player EXCEPT !.targetX = Null, !.targetY = Null,
                                      !.isMoving = FALSE, !.animationFrame = 0]
                ELSE AdvanceFrame(m.player, t, MoveFramePeriod),
     updated |-> TRUE]

\* A first loop that also ends the isMoving of a player without target
tickPlayerSettling(player, t, roundsUp) ==
    IF player.targetX # Null /\ player.targetY # Null
    THEN AfterPursuit(movePlayerTowards(player, player.targetX, player.targetY,
                                        PursuitSpeed, roundsUp), t)
    ELSE IF player.isMoving
    THEN [player |-> [player EXCEPT !.isMoving = FALSE], updated |-> TRUE]
    ELSE IF t - player.lastAnimationUpdate > IdleFramePeriod
    THEN [player |-> [player EXCEPT !.animationFrame = (@ + 1) % FrameCount,
                                    !.lastAnimationUpdate = t],
          updated |-> TRUE]
    ELSE [player |-> player, updated |-> FALSE]

\* One iteration of the first loop of the setInterval(..., 50) callback
tickPlayer(player, t, roundsUp) ==
    IF player.targetX # Null /\ player.targetY # Null
    THEN AfterPursuit(movePlayerTowards(player, player.targetX, player.targetY,
                                        PursuitSpeed, roundsUp), t)
    ELSE IF ~player.isMoving /\ t - player.lastAnimationUpdate > IdleFramePeriod
    THEN [player |-> [player EXCEPT !.animationFrame = (@ + 1) % FrameCount,
                                    !.lastAnimationUpdate = t],
          updated |-> TRUE]
    ELSE [player |-> player, updated |-> FALSE]

\* The second loop: a 'moved' update for every player that passes its test
RECURSIVE broadcastMoving(_, _)
broadcastMoving(S, ids) ==
    IF ids = <<>> THEN S
    ELSE broadcastMoving(
            IF \/ S.players[Head(ids)].targetX # Null
               \/ S.players[Head(ids)].targetY # Null
               \/ S.players[Head(ids)].isMoving
            THEN broadcastUpdate(S, "player", "moved",
                                 [player |-> S.players[Head(ids)]], NoId)
            ELSE S,
            Tail(ids))

\* The second loop run on every tick, not under if (hasUpdates)
AfterLoopUngated(S, steps) ==
    broadcastMoving([S EXCEPT !.players = [id \in DOMAIN steps |-> steps[id].player]],
                    SelectSeq(IdOrder, LAMBDA id : id \in DOMAIN steps))

\* The callback after its first loop produced `steps`: if (hasUpdates) ...
AfterLoop(S, steps) ==
    IF \E id \in DOMAIN steps : steps[id].updated
    THEN broadcastMoving([S EXCEPT !.players = [id \in DOMAIN steps |-> steps[id].player]],
                         SelectSeq(IdOrder, LAMBDA id : id \in DOMAIN steps))
    ELSE [S EXCEPT !.players = [id \in DOMAIN steps |-> steps[id].player]]

\* The setInterval(..., 50) callback.  roundsUp: the players whose rounding error,
\* if they carry one, leaves the computed distance above the exact one.
tick(S, roundsUp) ==
    AfterLoop(S, [id \in DOMAIN S.players |->
                     tickPlayer(S.players[id], S.now, id \in roundsUp)])

\* -------------------------------------------------------------- persistence
\* saveState(): an fs.writeFile of the registry as it is now, not awaited
saveState(S) == [S EXCEPT !.writes = Append(@, S.players)]

\* A close handler that leaves the entry in the session map
onCloseKeepingSession(S, playerId) ==
    saveState(broadcastUpdate(S, "player", "left", [playerId |-> playerId], NoId))

\* A close handler that also deletes players[playerId]
onCloseForgettingPlayer(S, playerId) ==
    saveState(broadcastUpdate(
        [S EXCEPT !.connections =
                    [i \in DOMAIN S.connections \ {playerId} |-> S.connections[i]],
                  !.players = [i \in DOMAIN S.players \ {playerId} |-> S.players[i]]],
        "player", "left", [playerId |-> playerId], NoId))

\* ws.on('close')
onClose(S, playerId) ==
    saveState(broadcastUpdate(
        [S EXCEPT !.connections =
            [i \in DOMAIN S.connections \ {playerId} |-> S.connections[i]]],
        "player", "left", [playerId |-> playerId], NoId))

\* setInterval(..., 30000): saveState(); scanSpritesDirectory()
periodic(S) == scanSpritesDirectory(saveState(S))

\* ----------------------------------------------------------------- messages
JoinMsg(username, sprite) ==
    [parses |-> TRUE, type |-> "player", action |-> "join",
     playerInfo |-> [given |-> TRUE, username |-> username, sprite |-> sprite]]
JoinNoInfo ==
    [parses |-> TRUE, type |-> "player", action |-> "join",
     playerInfo |-> [given |-> FALSE, username |-> Absent, sprite |-> Absent]]
MoveMsg(stop, direction, hasXY, x, y) ==
    [parses |-> TRUE, type |-> "player", action |-> "move",
     movement |-> [given |-> TRUE, stop |-> stop, direction |-> direction,
                   hasX |-> hasXY, hasY |-> hasXY, x |-> x, y |-> y]]
MoveNoData ==
    [parses |-> TRUE, type |-> "player", action |-> "move",
     movement |-> [given |-> FALSE, stop |-> FALSE, direction |-> Absent,
                   hasX |-> FALSE, hasY |-> FALSE, x |-> 0, y |-> 0]]
StopMsg == MoveMsg(TRUE, Absent, FALSE, 0, 0)
DirectionMsg(direction) == MoveMsg(FALSE, direction, FALSE, 0, 0)
ClickMsg(x, y) == MoveMsg(FALSE, Absent, TRUE, x, y)
ChangeSpriteMsg(spriteName) ==
    [parses |-> TRUE, type |-> "player", action |-> "change_sprite",
     spriteName |-> spriteName]
ListMsg == [parses |-> TRUE, type |-> "sprite", action |-> "list"]
UploadMsg(spriteName, spriteFrames) ==
    [parses |-> TRUE, type |-> "sprite", action |-> "upload",
     spriteName |-> spriteName, spriteFrames |-> spriteFrames]
OtherMsg(type, action) == [parses |-> TRUE, type |-> type, action |-> action]
Malformed == [parses |-> FALSE]

\* The branch of handlePlayerMove a movement takes
MoveMode(movement) ==
    IF ~movement.given THEN "throws"
    ELSE IF movement.stop THEN "stop"
    ELSE IF movement.direction # Absent THEN "direction"
    ELSE IF movement.hasX /\ movement.hasY THEN "click"
    ELSE "none"

IsMove(message) == message.parses /\ message.type = "player" /\ message.action = "move"
IsJoin(message) == message.parses /\ message.type = "player" /\ message.action = "join"
IsChangeSprite(message) ==
    message.parses /\ message.type = "player" /\ message.action = "change_sprite"
IsUpload(message) == message.parses /\ message.type = "sprite" /\ message.action = "upload"

\* imageData values: JSON objects as their entries in key order
Frames(direction, payloads) == [direction |-> direction, isArray |-> TRUE, frames |-> payloads]
ImageData(entries) == [given |-> TRUE, entries |-> entries]
NoImageData == [given |-> FALSE, entries |-> <<>>]

\* ------------------------------------------------------------------ history
NoPursuit == [active |-> FALSE, x0 |-> 0, y0 |-> 0, inexact0 |-> FALSE,
              tx |-> 0, ty |-> 0, ticks |-> 0]

\* After a message of playerId: a click that set a target starts a pursuit, any
\* other command that reached handlePlayerMove ends the one recorded.
PursuitAfterMessage(playerId, message, after) ==
    [id \in DOMAIN after |->
        IF id # playerId THEN pursuit[id]
        ELSE IF id \notin DOMAIN players THEN NoPursuit
        ELSE IF IsMove(message) /\ MoveMode(message.movement) = "click"
        THEN [active |-> TRUE, x0 |-> players[id].x, y0 |-> players[id].y,
              inexact0 |-> players[id].inexact,
              tx |-> after[id].targetX, ty |-> after[id].targetY, ticks |-> 0]
        ELSE IF IsMove(message) /\ MoveMode(message.movement) \in {"stop", "direction"}
        THEN NoPursuit
        ELSE pursuit[id]]

PursuitAfterTick ==
    [id \in DOMAIN players |->
        IF pursuit[id].active /\ players[id].targetX # Null
        THEN [pursuit[id] EXCEPT !.ticks = @ + 1]
        ELSE pursuit[id]]

\* Every pursuit under way is one the fixed-point grid holds exactly
Exact(S) ==
    \A id \in DOMAIN S.players :
        S.players[id].targetX # Null =>
            Representable(S.players[id].x, S.players[id].y,
                          S.players[id].targetX, S.players[id].targetY, PursuitSpeed)

\* ------------------------------------------------------------------ actions
Commit(S) ==
    /\ players' = S.players
    /\ spriteDatabase' = S.spriteDatabase
    /\ disk' = S.disk
    /\ connections' = S.connections
    /\ writes' = S.writes
    /\ out' = S.out
    /\ lastSave' = IF Len(S.writes) > Len(writes) THEN S.writes[Len(S.writes)]
                   ELSE lastSave

\* wss.on('connection'): playerId = Math.random().toString(36).substr(2, 9),
\* taken to be an id not handed out before, is registered in the session map
Connection(playerId) ==
    /\ playerId \notin issued
    /\ issued' = issued \cup {playerId}
    /\ Commit([Store EXCEPT !.connections = Put(connections, playerId, "OPEN")])
    /\ ev' = [op |-> "connection", id |-> playerId]
    /\ UNCHANGED <<now, playersFile, nmsg, pursuit>>

\* The socket leaves OPEN before its 'close' event is delivered
Closing(playerId) ==
    /\ playerId \in DOMAIN connections
    /\ connections[playerId] = "OPEN"
    /\ Commit([Store EXCEPT !.connections[playerId] = "CLOSING"])
    /\ ev' = [op |-> "closing", id |-> playerId]
    /\ UNCHANGED <<now, playersFile, nmsg, pursuit, issued>>

Close(playerId) ==
    /\ playerId \in DOMAIN connections
    /\ Len(writes) < MaxInFlight
    /\ Commit(onClose(Store, playerId))
    /\ ev' = [op |-> "close", id |-> playerId]
    /\ UNCHANGED <<now, playersFile, nmsg, pursuit, issued>>

\* A message arrives on an open session; (rx, ry) are the random draws of a join
Message(playerId, message, rx, ry) ==
    /\ playerId \in DOMAIN connections
    /\ connections[playerId] = "OPEN"
    /\ nmsg < MaxMsgs
    /\ LET S == onMessage(Store, playerId, message, rx, ry)
       IN /\ Exact(S)
          /\ Commit(S)
          /\ pursuit' = PursuitAfterMessage(playerId, message, S.players)
    /\ ev' = [op |-> "message", id |-> playerId, message |-> message]
    /\ nmsg' = nmsg + 1
    /\ UNCHANGED <<now, playersFile, issued>>

\* The players whose next pursuit step is decided by their rounding error
AtBoundary ==
    {id \in DOMAIN players :
        /\ players[id].targetX # Null
        /\ players[id].inexact
        /\ distance2(players[id].x, players[id].y, players[id].targetX, players[id].targetY)
               = (PursuitSpeed * Unit) * (PursuitSpeed * Unit)}

Tick ==
    /\ \E roundsUp \in SUBSET AtBoundary : Commit(tick(Store, roundsUp))
    /\ pursuit' = PursuitAfterTick
    /\ ev' = [op |-> "tick"]
    /\ UNCHANGED <<now, playersFile, nmsg, issued>>

Periodic ==
    /\ Len(writes) < MaxInFlight
    /\ Commit(periodic(Store))
    /\ ev' = [op |-> "periodic"]
    /\ UNCHANGED <<now, playersFile, nmsg, pursuit, issued>>

\* One fs.writeFile of saveState() completes; completions come in any order
WriteDone(i) ==
    /\ i \in 1..Len(writes)
    /\ playersFile' = writes[i]
    /\ writes' = SubSeq(writes, 1, i - 1) \o SubSeq(writes, i + 1, Len(writes))
    /\ out' = EmptyOut
    /\ ev' = [op |-> "written"]
    /\ UNCHANGED <<players, spriteDatabase, disk, connections, now, nmsg, pursuit, issued,
                   lastSave>>

\* Time passes
Elapse(dt) ==
    /\ now + dt <= MaxTime
    /\ now' = now + dt
    /\ out' = EmptyOut
    /\ ev' = [op |-> "elapse"]
    /\ UNCHANGED <<players, spriteDatabase, disk, connections, writes, playersFile,
                   nmsg, pursuit, issued, lastSave>>

\* Someone puts frame files into a folder of SPRITES_DIR
DropFiles(spriteName, files) ==
    /\ files # {}
    /\ spriteName \notin DOMAIN disk \/ ~(files \subseteq disk[spriteName].files)
    /\ disk' = Put(disk, spriteName,
                   [mtime |-> now,
                    files |-> files \cup (IF spriteName \in DOMAIN disk
                                          THEN disk[spriteName].files ELSE {})])
    /\ out' = EmptyOut
    /\ ev' = [op |-> "files", name |-> spriteName]
    /\ UNCHANGED <<players, spriteDatabase, connections, now, writes, playersFile,
                   nmsg, pursuit, issued, lastSave>>

\* ------------------------------------------------------------ initial state
\* initializeSpritesDirectory() on a first start: an empty sprites/default
FreshDisk == [n \in {"default"} |-> [mtime |-> 0, files |-> {}]]
\* sprites/default with one frame per required direction
StockedDisk ==
    [n \in {"default"} |->
        [mtime |-> 0, files |-> {<<"north", 1>>, <<"south", 1>>, <<"east", 1>>}]]

\* loadSpriteDatabase() and loadState() with no saved files
Init ==
    /\ disk \in {FreshDisk, StockedDisk}
    /\ spriteDatabase =
          scanSpritesDirectory([spriteDatabase |-> EmptyMap, disk |-> disk]).spriteDatabase
    /\ players = EmptyMap
    /\ connections = EmptyMap
    /\ now = 0
    /\ writes = <<>>
    /\ playersFile = EmptyMap
    /\ out = EmptyOut
    /\ ev = [op |-> "start"]
    /\ nmsg = 0
    /\ pursuit = EmptyMap
    /\ issued = {}
    /\ lastSave = EmptyMap

\* ------------------------------------------------------------------- inputs
JoinSpots == {<<0, 0>>, <<4040, 4045>>}
Delays == {600, 1001}

OneEach == <<Frames("north", <<"png">>), Frames("south", <<"png">>),
             Frames("east", <<"png">>)>>
NoSouth == <<Frames("north", <<"png">>), Frames("east", <<"png">>)>>
BadEast == <<Frames("north", <<"png">>), Frames("south", <<"png">>),
             Frames("east", <<"png", "bad">>)>>

Messages ==
    {JoinMsg("ann", "ghost"), JoinMsg(Absent, Absent), JoinNoInfo,
     StopMsg, MoveMsg(TRUE, "up", TRUE, 500, 500),
     DirectionMsg("up"), DirectionMsg("down"), DirectionMsg("left"),
     DirectionMsg("right"), DirectionMsg("jump"),
     ClickMsg(34, 37), ClickMsg(25, 32), ClickMsg(-99999, -99999), ClickMsg(99999, 99999),
     MoveMsg(FALSE, Absent, FALSE, 0, 0), MoveNoData,
     ChangeSpriteMsg("default"), ChangeSpriteMsg("ghost"), ChangeSpriteMsg(Absent),
     ListMsg,
     UploadMsg("ghost", ImageData(OneEach)), UploadMsg("ghost", ImageData(NoSouth)),
     UploadMsg("ghost", ImageData(BadEast)), UploadMsg("ghost", NoImageData),
     OtherMsg("sprite", "delete"), OtherMsg("player", "dance"), OtherMsg("chat", "say"),
     Malformed}

Draws(playerId, message, spots) ==
    IF IsJoin(message) /\ playerId \notin DOMAIN players THEN spots ELSE {<<0, 0>>}

DroppedFiles == {{<<"north", 1>>, <<"south", 1>>, <<"east", 1>>}, {<<"east", 2>>}}

\* ------------------------------------------------------------ specification
Next ==
    \/ \E id \in Ids : Connection(id)
    \/ \E id \in Ids : Closing(id)
    \/ \E id \in Ids : Close(id)
    \/ \E id \in Ids, m \in Messages :
          \E spot \in Draws(id, m, JoinSpots) : Message(id, m, spot[1], spot[2])
    \/ Tick
    \/ Periodic
    \/ \E i \in 1..MaxInFlight : WriteDone(i)
    \/ \E dt \in Delays : Elapse(dt)
    \/ \E f \in DroppedFiles : DropFiles("default", f)

Spec == Init /\ [][Next]_vars

\* One session: joins, the three modes of move, sprite changes, ticks, time
MoveMessages ==
    {JoinMsg("ann", "ghost"), JoinMsg(Absent, Absent), JoinNoInfo,
     StopMsg, MoveMsg(TRUE, "up", TRUE, 500, 500),
     DirectionMsg("up"), DirectionMsg("down"), DirectionMsg("left"),
     DirectionMsg("right"),
     ClickMsg(34, 37), ClickMsg(25, 32), ClickMsg(-99999, -99999), ClickMsg(99999, 99999),
     MoveMsg(FALSE, Absent, FALSE, 0, 0), MoveNoData,
     ChangeSpriteMsg("default"), ChangeSpriteMsg("ghost")}

NextMove ==
    \/ Connection("a1")
    \/ \E m \in MoveMessages :
          \E spot \in Draws("a1", m, JoinSpots) : Message("a1", m, spot[1], spot[2])
    \/ Tick
    \/ \E dt \in Delays : Elapse(dt)

SpecMove == Init /\ [][NextMove]_vars

\* Two sessions: every kind of inbound message, ticks, closing sessions
ProtoMessages ==
    {JoinMsg(Absent, Absent), JoinNoInfo,
     StopMsg, DirectionMsg("right"), DirectionMsg("jump"), ClickMsg(34, 37), MoveNoData,
     ChangeSpriteMsg("default"), ChangeSpriteMsg(Absent),
     ListMsg, UploadMsg("ghost", ImageData(OneEach)),
     OtherMsg("sprite", "delete"), OtherMsg("player", "dance"), OtherMsg("chat", "say"),
     OtherMsg("sprite", "join"), OtherMsg("player", Absent),
     Malformed}

NextProto ==
    \/ \E id \in Ids : Connection(id)
    \/ \E id \in Ids : Closing(id)
    \/ \E id \in Ids, m \in ProtoMessages : Message(id, m, 0, 0)

SpecProto == Init /\ [][NextProto]_vars

\* Two sessions and the game loop: keyboard moves, pursuits, idle players,
\* sessions on their way out
TickMessages ==
    {JoinMsg(Absent, Absent), StopMsg, DirectionMsg("right"), ClickMsg(34, 37)}

NextTick ==
    \/ \E id \in Ids : Connection(id)
    \/ \E id \in Ids : Closing(id)
    \/ \E id \in Ids, m \in TickMessages : Message(id, m, 0, 0)
    \/ Tick
    \/ Elapse(1001)

SpecTick == Init /\ [][NextTick]_vars

\* The catalog: uploads, folder scans, files appearing on disk
CatalogMessages ==
    {ListMsg,
     UploadMsg("ghost", ImageData(OneEach)), UploadMsg("ghost", ImageData(NoSouth)),
     UploadMsg("ghost", ImageData(BadEast)), UploadMsg("ghost", NoImageData),
     UploadMsg("default", ImageData(NoSouth)), UploadMsg(Absent, ImageData(OneEach))}

NextCatalog ==
    \/ Connection("a1")
    \/ \E m \in CatalogMessages : Message("a1", m, 0, 0)
    \/ Periodic
    \/ \E i \in 1..MaxInFlight : WriteDone(i)
    \/ Elapse(600)
    \/ \E f \in DroppedFiles : DropFiles("default", f)

SpecCatalog == Init /\ [][NextCatalog]_vars

\* Two sessions that upload, while folders are scanned and files are dropped
WithWest == OneEach \o <<Frames("west", <<"png", "png">>)>>

UploadMessages ==
    {UploadMsg("ghost", ImageData(WithWest)), UploadMsg("ghost", ImageData(BadEast)),
     UploadMsg("default", ImageData(OneEach))}

NextUpload ==
    \/ \E id \in {"a1", "b2"} : Connection(id)
    \/ Closing("b2")
    \/ \E id \in {"a1", "b2"}, m \in UploadMessages : Message(id, m, 0, 0)
    \/ Periodic
    \/ Elapse(600)
    \/ DropFiles("default", {<<"east", 2>>})

SpecUpload == Init /\ [][NextUpload]_vars

\* One player whose commands and ticks come at, just after and well after the
\* two animation periods
FrameDelays == {MoveFramePeriod, MoveFramePeriod + 1, IdleFramePeriod - MoveFramePeriod}

FrameMessages ==
    {JoinMsg(Absent, Absent), StopMsg, DirectionMsg("right"), ClickMsg(34, 37),
     ChangeSpriteMsg("default")}

NextFrame ==
    \/ Connection("a1")
    \/ \E m \in FrameMessages : Message("a1", m, 0, 0)
    \/ Tick
    \/ \E dt \in FrameDelays : Elapse(dt)

SpecFrame == Init /\ [][NextFrame]_vars

\* ------------------------------------------------------------------ queries
\* What the last handler sent to session c
ResponsesIn(envelopes) == SelectSeq(envelopes, LAMBDA e : e.type = "response")
UpdatesIn(envelopes, category, action) ==
    SelectSeq(envelopes, LAMBDA e : e.type = "update" /\ e.category = category
                                                      /\ e.action = action)
Responses(c) == ResponsesIn(out[c])
Updates(c, category, action) == UpdatesIn(out[c], category, action)
OpenSession(c) == c \in DOMAIN connections /\ connections[c] = "OPEN"

\* The last handler run was the message handler, on a message of a joined player
\* that handlePlayerMove took through the given branches
MoveHandled(modes) ==
    /\ ev.op = "message"
    /\ IsMove(ev.message)
    /\ MoveMode(ev.message.movement) \in modes
    /\ ev.id \in DOMAIN players

\* --------------------------------------------------------------------- stop
\* C1: once a move command whose stop flag is set has been handled for a joined
\* player, that player has isMoving = FALSE, targetX = targetY = null and
\* animationFrame = 0, whatever the player was doing before and whatever
\* direction or x, y the same command carries.
StopClearsState ==
    MoveHandled({"stop"}) =>
        /\ players[ev.id].isMoving = FALSE
        /\ players[ev.id].targetX = Null
        /\ players[ev.id].targetY = Null
        /\ players[ev.id].animationFrame = 0

\* A stop that also carries a direction and x, y, handled for a player that was
\* one step into a pursuit from (0, 0) towards (9, 12)
StopDuringPursuit ==
    /\ MoveHandled({"stop"})
    /\ ev.message = MoveMsg(TRUE, "up", TRUE, 500, 500)
    /\ players[ev.id].x = 9
    /\ players[ev.id].y = 12

\* ------------------------------------------------------------------- bounds
\* C2: every player of the registry has 0 <= x <= 4046 and 0 <= y <= 4046, after
\* any sequence of joins, moves (direction, click, stop), sprite changes and ticks.
PositionsInWorld ==
    \A id \in DOMAIN players :
        /\ 0 <= players[id].x /\ players[id].x <= (WorldWidth - Footprint) * Unit
        /\ 0 <= players[id].y /\ players[id].y <= (WorldHeight - Footprint) * Unit

\* A keyboard step that the right edge cut short, and a click far outside the
\* world whose target was brought to the corner
StoppedAtEdge ==
    \E id \in DOMAIN players :
        /\ MoveHandled({"direction", "click"})
        /\ players[id].x = MaxX
        /\ players[id].y = MaxY
        /\ players[id].targetX \in {Null, MaxX}

\* ------------------------------------------------------------------ pursuit
\* ceil(d / 3), d in parts of a pixel
CeilTicks(d) == (d + PursuitSpeed * Unit - 1) \div (PursuitSpeed * Unit)

\* The distance at which the click recorded in p found the player
InitialDistance(p) == distance(p.x0, p.y0, p.tx, p.ty)

Pursuing == {id \in DOMAIN players : pursuit[id].active}

Arrived(id) ==
    /\ players[id].x = pursuit[id].tx
    /\ players[id].y = pursuit[id].ty
    /\ players[id].targetX = Null
    /\ players[id].targetY = Null
    /\ players[id].isMoving = FALSE

\* After k ticks short of arrival the player is 3k from where the click found it,
\* on the line to the target and not beyond it, and still has the target
OnTheWay(id) ==
    LET p == pursuit[id]
        d == InitialDistance(p)
        gone == PursuitSpeed * Unit * p.ticks
    IN /\ players[id].targetX = p.tx
       /\ players[id].targetY = p.ty
       /\ gone <= d
       /\ (players[id].x - p.x0) * d = (p.tx - p.x0) * gone
       /\ (players[id].y - p.y0) * d = (p.ty - p.y0) * gone

\* C3 (amended): a player whose target was set by a click at distance d, and who
\* got no further command, reaches the target on tick n >= 1 with
\* n = ceil(d / 3), or n = ceil(d / 3) + 1 when d = 0 or when d is a multiple of 3,
\* the line is diagonal or starts at a position that carries a rounding error,
\* and the rounded distance of the last step came out above 3;
\* from then on the position is the target exactly, the target is cleared and
\* isMoving = FALSE; after each earlier tick k the player is 3k along the line to
\* the target, not beyond it.
PursuitConverges ==
    \A id \in Pursuing :
        IF players[id].targetX = Null
        THEN /\ Arrived(id)
             /\ pursuit[id].ticks >= 1
             /\ \/ pursuit[id].ticks = CeilTicks(InitialDistance(pursuit[id]))
                \/ /\ pursuit[id].ticks = CeilTicks(InitialDistance(pursuit[id])) + 1
                   /\ InitialDistance(pursuit[id]) % (PursuitSpeed * Unit) = 0
                   /\ \/ InitialDistance(pursuit[id]) = 0
                      \/ pursuit[id].inexact0
                      \/ /\ pursuit[id].x0 # pursuit[id].tx
                         /\ pursuit[id].y0 # pursuit[id].ty
        ELSE OnTheWay(id)

\* A pursuit from (0, 0) to (9, 12), distance 15, over after 5 ticks
ArrivedAfterFiveTicks ==
    \E id \in Pursuing :
        /\ pursuit[id].x0 = 0 /\ pursuit[id].y0 = 0
        /\ pursuit[id].tx = 9 * Unit /\ pursuit[id].ty = 12 * Unit
        /\ pursuit[id].ticks = 5
        /\ Arrived(id)

\* C3 as stated: after exactly ceil(d / 3) ticks the player is on the target,
\* with the target cleared and isMoving = FALSE
ArrivesAfterCeilTicks ==
    \A id \in Pursuing :
        pursuit[id].ticks = CeilTicks(InitialDistance(pursuit[id])) => Arrived(id)

\* ------------------------------------------------------------------ re-join
\* C6: a join handled for an id that is already in the registry leaves every
\* field of that player's record as it was, whatever username and sprite the
\* join carries, and the world snapshot of the join response holds that record.
RejoinIsIdempotent ==
    [][(/\ ev'.op = "message"
        /\ IsJoin(ev'.message)
        /\ ev'.id \in DOMAIN players)
       => /\ players'[ev'.id] = players[ev'.id]
          /\ Len(ResponsesIn(out'[ev'.id])) = 1
          /\ ResponsesIn(out'[ev'.id])[1].action = "join"
          /\ ResponsesIn(out'[ev'.id])[1].success
          /\ ResponsesIn(out'[ev'.id])[1].data.worldState[ev'.id] = players[ev'.id]]_vars

\* A join carrying username "ann" and sprite "ghost" was handled for a player
\* that is moving under another username
RejoinedUnderAnotherName ==
    /\ ev.op = "message"
    /\ ev.message = JoinMsg("ann", "ghost")
    /\ ev.id \in DOMAIN players
    /\ players[ev.id].username = DefaultUsername(ev.id)
    /\ players[ev.id].isMoving
    /\ Len(Responses(ev.id)) = 1

\* ---------------------------------------------------------- sprite references
\* C7: the sprite of every player names a sprite registered in the catalog
SpritesResolve ==
    \A id \in DOMAIN players : players[id].sprite \in DOMAIN spriteDatabase

\* ------------------------------------------------------------------ catalog
\* C4: every registered sprite has at least one frame for each of north, south
\* and east
RegisteredSpritesComplete ==
    \A n \in DOMAIN spriteDatabase :
        \A i \in 1..Len(RequiredDirs) : Len(spriteDatabase[n].frames[RequiredDirs[i]]) > 0

\* The upload has no frame at all for one of the required directions
LacksDirection(imageData) ==
    \E i \in 1..Len(RequiredDirs) :
        \A k \in 1..Len(imageData.entries) :
            \/ imageData.entries[k].direction # RequiredDirs[i]
            \/ Len(imageData.entries[k].frames) = 0

\* One frame payload of the upload fails to decode or to be written
HasBadFrame(imageData) ==
    \E k \in 1..Len(imageData.entries) :
        \E j \in 1..Len(imageData.entries[k].frames) : imageData.entries[k].frames[j] = "bad"

\* C5: an upload with no frames for a required direction, or with a frame that
\* fails to decode or write, gets a failure response, leaves the catalog exactly
\* as it was and causes no 'sprite added' update.
InvalidUploadRejected ==
    [][(/\ ev'.op = "message"
        /\ IsUpload(ev'.message)
        /\ ev'.message.spriteName # Absent
        /\ ev'.message.spriteFrames.given
        /\ \/ LacksDirection(ev'.message.spriteFrames)
           \/ HasBadFrame(ev'.message.spriteFrames))
       => /\ spriteDatabase' = spriteDatabase
          /\ Len(ResponsesIn(out'[ev'.id])) = 1
          /\ ~ResponsesIn(out'[ev'.id])[1].success
          /\ \A c \in Ids : UpdatesIn(out'[c], "sprite", "added") = <<>>]_vars

\* --------------------------------------------------------------- recipients
\* The last handler was the message handler on a player command that went
\* through: a join, a stop or keyboard move, or a sprite change that succeeded
JoinHandled == ev.op = "message" /\ IsJoin(ev.message) /\ ev.id \in DOMAIN players
SpriteChanged ==
    /\ ev.op = "message"
    /\ IsChangeSprite(ev.message)
    /\ ev.id \in DOMAIN players
    /\ ev.message.spriteName # Absent
    /\ ev.message.spriteName \in DOMAIN spriteDatabase

\* The sessions that got exactly one update of the kind, about the sender as it
\* is now, and the sessions that got none
Notified(action) ==
    {c \in Ids : /\ Len(Updates(c, "player", action)) = 1
                 /\ Updates(c, "player", action)[1].data.player = players[ev.id]}
NotNotified(action) == {c \in Ids : Updates(c, "player", action) = <<>>}
OpenSessions == {c \in Ids : OpenSession(c)}

\* C8 (amended): the 'joined' update of a join goes to every other open session
\* and not to the sender; the 'moved' update of a stop or keyboard move and the
\* 'changed_sprite' update of a sprite change go to every open session, the
\* sender included; a click-to-move command causes no update.
UpdateRecipients ==
    /\ JoinHandled =>
          /\ Notified("joined") = OpenSessions \ {ev.id}
          /\ NotNotified("joined") = Ids \ (OpenSessions \ {ev.id})
    /\ MoveHandled({"stop", "direction"}) =>
          /\ Notified("moved") = OpenSessions
          /\ NotNotified("moved") = Ids \ OpenSessions
    /\ MoveHandled({"click", "none"}) => \A c \in Ids : out[c] = <<>>
    /\ SpriteChanged =>
          /\ Notified("changed_sprite") = OpenSessions
          /\ NotNotified("changed_sprite") = Ids \ OpenSessions

\* A keyboard move whose 'moved' update reached the sender and another session
MovedSentToSenderToo ==
    /\ MoveHandled({"direction"})
    /\ ev.id \in Notified("moved")
    /\ Notified("moved") \ {ev.id} # {}

\* C8 as stated: the update of a join, a move or a sprite change goes to every
\* other open session and not to the sender
UpdatesSkipSender ==
    /\ JoinHandled => Notified("joined") = OpenSessions \ {ev.id}
    /\ MoveHandled({"stop", "direction"}) => Notified("moved") = OpenSessions \ {ev.id}
    /\ SpriteChanged => Notified("changed_sprite") = OpenSessions \ {ev.id}

\* ---------------------------------------------------------------- responses
\* C9 (amended): every inbound message on an open session other than a
\* player.move gets exactly one response envelope, sent to its sender and to no
\* one else; a player.move gets none, whichever of its modes it is in and
\* whether or not the sender has joined, except that a move without movement
\* data from a joined player gets the one 'Invalid message format' failure.
OneResponseUnlessMove ==
    ev.op = "message" =>
        /\ \A c \in Ids \ {ev.id} : Responses(c) = <<>>
        /\ IF IsMove(ev.message)
           THEN IF MoveHandled({"throws"})
                THEN /\ Len(Responses(ev.id)) = 1
                     /\ Responses(ev.id)[1].action = "error"
                     /\ ~Responses(ev.id)[1].success
                ELSE Responses(ev.id) = <<>>
           ELSE Len(Responses(ev.id)) = 1

\* A keyboard move of a joined player that was handled without a response
MoveWithoutResponse ==
    /\ MoveHandled({"direction"})
    /\ players[ev.id].isMoving
    /\ Responses(ev.id) = <<>>

\* C9 as stated: every inbound message results in exactly one response envelope
\* sent to the originating session
OneResponsePerMessage ==
    ev.op = "message" => Len(Responses(ev.id)) = 1

\* --------------------------------------------------------- tick broadcasts
\* The ids, in registry order, of the players in `registry` with a target set or
\* isMoving = TRUE
MovingIds(registry) ==
    SelectSeq(IdOrder, LAMBDA id : /\ id \in DOMAIN registry
                                   /\ \/ registry[id].targetX # Null
                                      \/ registry[id].targetY # Null
                                      \/ registry[id].isMoving)

\* The players the 'moved' updates among `envelopes` are about, in order
MovedIn(envelopes) ==
    [i \in 1..Len(UpdatesIn(envelopes, "player", "moved")) |->
        UpdatesIn(envelopes, "player", "moved")[i].data.player]

\* Whether a tick starting in this state updates a player: one has a target, or
\* is idle and its frame is due
TickUpdatesSomeone ==
    \E id \in DOMAIN players :
        \/ players[id].targetX # Null /\ players[id].targetY # Null
        \/ ~players[id].isMoving /\ now - players[id].lastAnimationUpdate > IdleFramePeriod

\* C10 (amended): after a tick that updated at least one player (a player had a
\* target when it began, or an idle player's animation frame advanced), every
\* open session is sent one 'player moved' update for each player whose target is
\* still set or whose isMoving is true at the end of the tick, those that did
\* not change included; a tick that updated no player sends nothing.
TickBroadcastsWhenUpdated ==
    [][ev'.op = "tick" =>
        \A c \in Ids :
            IF TickUpdatesSomeone /\ c \in DOMAIN connections /\ connections[c] = "OPEN"
            THEN /\ Len(out'[c]) = Len(MovingIds(players'))
                 /\ MovedIn(out'[c]) =
                       [i \in 1..Len(MovingIds(players')) |-> players'[MovingIds(players')[i]]]
            ELSE out'[c] = <<>>]_vars

\* A tick that advanced an idle player's frame and sent the 'moved' update of a
\* keyboard-moved player, which the tick did not change
UnchangedMoverBroadcast ==
    /\ ev.op = "tick"
    /\ \E a, b \in DOMAIN players :
          /\ players[a].isMoving /\ players[a].targetX = Null
          /\ ~players[b].isMoving /\ players[b].animationFrame = 1
          /\ players[b].lastAnimationUpdate = now
          /\ \A c \in OpenSessions : MovedIn(out[c]) = <<players[a]>>
          /\ OpenSessions # {}

\* C10 as stated: after every tick a 'player moved' update is broadcast for
\* every player whose target is still set or whose isMoving is true
TickBroadcastsAllMoving ==
    ev.op = "tick" =>
        \A c \in OpenSessions :
            \A i \in 1..Len(MovingIds(players)) :
                \E k \in 1..Len(MovedIn(out[c])) : MovedIn(out[c])[k].id = MovingIds(players)[i]

\* C11: every player whose record a tick changes (a pursuit step, the arrival
\* that clears the target, an idle frame advance) is the subject of a 'player
\* moved' update sent to the open sessions in that same tick.
TickBroadcastsChanged ==
    [][ev'.op = "tick" =>
        \A id \in DOMAIN players :
            players'[id] # players[id] =>
                \A c \in Ids :
                    (c \in DOMAIN connections /\ connections[c] = "OPEN") =>
                        \E k \in 1..Len(MovedIn(out'[c])) : MovedIn(out'[c])[k].id = id]_vars

SessionMessages ==
    {JoinMsg(Absent, Absent), DirectionMsg("right"), ClickMsg(34, 37),
     ChangeSpriteMsg("default"), ListMsg, UploadMsg("ghost", ImageData(OneEach)),
     OtherMsg("player", "dance")}

NextSession ==
    \/ \E id \in Ids : Connection(id)
    \/ \E id \in Ids : Closing(id)
    \/ \E id \in Ids : Close(id)
    \/ \E id \in Ids, m \in SessionMessages : Message(id, m, 0, 0)
    \/ Tick
    \/ \E i \in 1..MaxInFlight : WriteDone(i)

SpecSession == Init /\ [][NextSession]_vars

\* C13: when a session closes, its entry leaves the session map (the other
\* entries stay), every session still open gets exactly one 'player left'
\* update carrying the departing id and nothing else, and the registry, the
\* departing id's record included, is unchanged.
CloseNotifiesOthers ==
    [][ev'.op = "close" =>
        /\ DOMAIN connections' = DOMAIN connections \ {ev'.id}
        /\ \A c \in DOMAIN connections' : connections'[c] = connections[c]
        /\ players' = players
        /\ \A c \in Ids :
              out'[c] = IF c \in DOMAIN connections' /\ connections'[c] = "OPEN"
                        THEN <<[type |-> "update", category |-> "player", action |-> "left",
                                data |-> [playerId |-> ev'.id]]>>
                        ELSE <<>>]_vars

\* A joined player's session closed while another session was open: that session
\* got the update and the record is still in the registry
JoinedPlayerLeft ==
    /\ ev.op = "close"
    /\ ev.id \in DOMAIN players
    /\ ev.id \notin DOMAIN connections
    /\ \E c \in OpenSessions : Len(Updates(c, "player", "left")) = 1

\* C14: the ids of the registry change only by a join that adds the id of the
\* session that sent it; no other message, tick or close adds or removes an id.
RegistryGrowsByJoinOnly ==
    [][\/ DOMAIN players' = DOMAIN players
       \/ /\ ev'.op = "message"
          /\ IsJoin(ev'.message)
          /\ ev'.id \notin DOMAIN players
          /\ DOMAIN players' = DOMAIN players \cup {ev'.id}]_vars

\* Both ids are in the registry after the session of one of them has closed and
\* the other has moved
RegistryKeepsClosedPlayer ==
    /\ DOMAIN players = Ids
    /\ \E id \in Ids : id \notin DOMAIN connections
    /\ MoveHandled({"direction", "click"})

\* ------------------------------------------------------------ unknown kinds
\* The category of a message is unknown, or its action is not one of its category
UnknownKind(message) ==
    /\ message.parses
    /\ \/ message.type \notin {"sprite", "player"}
       \/ message.type = "sprite" /\ message.action \notin {"list", "upload"}
       \/ message.type = "player" /\ message.action \notin {"join", "move", "change_sprite"}

\* C15: a message with an unknown category, or an action its category does not
\* have, gets one failure response with an error message, sent to its sender
\* alone; no update is broadcast and the registry, the catalog, the sprite
\* folders and the session map stay as they were.
UnknownKindRejected ==
    [][(ev'.op = "message" /\ UnknownKind(ev'.message))
       => /\ players' = players
          /\ spriteDatabase' = spriteDatabase
          /\ disk' = disk
          /\ connections' = connections
          /\ Len(out'[ev'.id]) = 1
          /\ out'[ev'.id][1].type = "response"
          /\ ~out'[ev'.id][1].success
          /\ out'[ev'.id][1].error # Absent
          /\ \A c \in Ids \ {ev'.id} : out'[c] = <<>>]_vars

\* A joined player sent the action of another category, with another session
\* open, and was told so
CrossCategoryActionRefused ==
    /\ ev.op = "message"
    /\ ev.message = OtherMsg("sprite", "join")
    /\ ev.id \in DOMAIN players
    /\ Len(Responses(ev.id)) = 1
    /\ Responses(ev.id)[1].error = "Unknown sprite action"
    /\ OpenSessions \ {ev.id} # {}

\* ------------------------------------------------------------------ uploads
\* The last handler answered the sender with success
Succeeded(envelopes) ==
    /\ Len(ResponsesIn(envelopes)) = 1
    /\ ResponsesIn(envelopes)[1].success

\* The number of frames an upload supplies for a direction
SuppliedFrames(imageData, direction) ==
    LET ks == {k \in 1..Len(imageData.entries) :
                  /\ imageData.entries[k].direction = direction
                  /\ imageData.entries[k].isArray}
    IN IF ks = {} THEN 0 ELSE Len(imageData.entries[CHOOSE k \in ks : TRUE].frames)

\* The catalog entry is the sprite the upload describes
IsUploadOf(sprite, message, t) ==
    /\ sprite.name = message.spriteName
    /\ sprite.custom
    /\ sprite.lastModified = t
    /\ \A i \in 1..Len(RequiredDirs) :
          sprite.frames[RequiredDirs[i]] =
              [k \in 1..SuppliedFrames(message.spriteFrames, RequiredDirs[i]) |->
                  FramePath(message.spriteName, RequiredDirs[i], k)]

\* C16: after an upload that succeeded the catalog has, under the uploaded name,
\* the sprite just uploaded, whatever entry that name had before; every open
\* session, the uploader's too, got exactly one 'sprite added' update, and that
\* update carries that sprite.
UploadRegistersAndNotifiesAll ==
    [][(/\ ev'.op = "message"
        /\ IsUpload(ev'.message)
        /\ Succeeded(out'[ev'.id]))
       => /\ ev'.message.spriteName \in DOMAIN spriteDatabase'
          /\ IsUploadOf(spriteDatabase'[ev'.message.spriteName], ev'.message, now)
          /\ \A c \in Ids :
                IF c \in DOMAIN connections' /\ connections'[c] = "OPEN"
                THEN /\ Len(UpdatesIn(out'[c], "sprite", "added")) = 1
                     /\ UpdatesIn(out'[c], "sprite", "added")[1].data.sprite
                            = spriteDatabase'[ev'.message.spriteName]
                ELSE out'[c] = <<>>]_vars

\* "default" was uploaded at 600 ms (its three files date from then) and has
\* just been uploaded again at 1200 ms, with both sessions open: the entry of
\* the first upload was replaced and both sessions were told
UploadReplacedEarlierUpload ==
    /\ ev.op = "message"
    /\ ev.message = UploadMsg("default", ImageData(OneEach))
    /\ Succeeded(out[ev.id])
    /\ now = 1200
    /\ disk["default"] = [mtime |-> 600,
                          files |-> {<<"north", 1>>, <<"south", 1>>, <<"east", 1>>}]
    /\ spriteDatabase["default"].lastModified = 1200
    /\ OpenSessions = {"a1", "b2"}
    /\ \A c \in OpenSessions : Len(Updates(c, "sprite", "added")) = 1

\* --------------------------------------------------------------------- west
\* C18: whenever a catalog entry is created or replaced, by the scan of the
\* sprite folders or by an upload, its west frames are its east frames; an
\* upload writes no west file and its west entry does not reach the catalog.
WestCopiesEast ==
    [][/\ \A n \in DOMAIN spriteDatabase' :
             (n \notin DOMAIN spriteDatabase \/ spriteDatabase'[n] # spriteDatabase[n])
                 => spriteDatabase'[n].frames.west = spriteDatabase'[n].frames.east
       /\ (ev'.op = "message" /\ IsUpload(ev'.message))
             => \A n \in DOMAIN disk' :
                   \A f \in disk'[n].files :
                       f[1] = "west" => n \in DOMAIN disk /\ f \in disk[n].files]_vars

\* An upload with two west frames and one east frame was registered with the
\* east frame as its west, next to a "default" the scan registered with the two
\* east frames of its folder
WestEntryIgnored ==
    /\ ev.op = "message"
    /\ ev.message = UploadMsg("ghost", ImageData(WithWest))
    /\ Succeeded(out[ev.id])
    /\ spriteDatabase["ghost"].frames.west = <<FramePath("ghost", "east", 1)>>
    /\ spriteDatabase["ghost"].frames.east = spriteDatabase["ghost"].frames.west
    /\ "default" \in DOMAIN spriteDatabase
    /\ ~spriteDatabase["default"].custom
    /\ Len(spriteDatabase["default"].frames.east) = 2
    /\ spriteDatabase["default"].frames.west = spriteDatabase["default"].frames.east

\* --------------------------------------------------------------- first join
\* The record of a player that has just been created
FreshRecord(player) ==
    /\ player.x >= 0 /\ player.x <= MaxX
    /\ player.y >= 0 /\ player.y <= MaxY
    /\ player.facing = "south"
    /\ ~player.isMoving
    /\ player.targetX = Null
    /\ player.targetY = Null

SteppedX(x, direction) ==
    CASE direction = "left" -> clamp(x - KeySpeed * Unit, 0, MaxX)
      [] direction = "right" -> clamp(x + KeySpeed * Unit, 0, MaxX)
      [] OTHER -> x
SteppedY(y, direction) ==
    CASE direction = "up" -> clamp(y - KeySpeed * Unit, 0, MaxY)
      [] direction = "down" -> clamp(y + KeySpeed * Unit, 0, MaxY)
      [] OTHER -> y
FacingOf(direction) ==
    CASE direction = "up" -> "north"
      [] direction = "down" -> "south"
      [] direction = "left" -> "west"
      [] direction = "right" -> "east"

\* C19: a move command without stop flag and with direction up, down, left or
\* right, handled for a joined player, moves the coordinate of that axis by 15
\* (up: y - 15, down: y + 15, left: x - 15, right: x + 15) clamped to
\* [0, 4046], leaves the other coordinate as it was, sets facing to north,
\* south, west or east, sets isMoving and clears the target, whatever the
\* player was doing before.
KeyStepDisplaces ==
    [][(/\ ev'.op = "message"
        /\ IsMove(ev'.message)
        /\ MoveMode(ev'.message.movement) = "direction"
        /\ ev'.message.movement.direction \in {"up", "down", "left", "right"}
        /\ ev'.id \in DOMAIN players)
       => /\ players'[ev'.id].x = SteppedX(players[ev'.id].x, ev'.message.movement.direction)
          /\ players'[ev'.id].y = SteppedY(players[ev'.id].y, ev'.message.movement.direction)
          /\ players'[ev'.id].facing = FacingOf(ev'.message.movement.direction)
          /\ players'[ev'.id].isMoving
          /\ players'[ev'.id].targetX = Null
          /\ players'[ev'.id].targetY = Null]_vars

\* Joined at (0, 0), clicked (34, 37), walked one tick to (1.8, 2.4), then
\* stepped right as third message: at (16.8, 2.4), facing east, target gone
KeyStepDuringPursuit ==
    /\ ev.op = "message"
    /\ ev.message = DirectionMsg("right")
    /\ nmsg = 3
    /\ ev.id \in DOMAIN players
    /\ players[ev.id].x = 9 + KeySpeed * Unit
    /\ players[ev.id].y = 12
    /\ players[ev.id].facing = "east"
    /\ players[ev.id].isMoving
    /\ players[ev.id].targetX = Null

\* -------------------------------------------------------------------- click
\* C20: a move command with x and y, no stop flag and no direction, handled
\* for a joined player, sets the target to (clamp(x - 25, 0, 4046),
\* clamp(y - 25, 0, 4046)) and leaves the player's position, facing, isMoving,
\* animationFrame and sprite as they were: the command itself moves nobody.
ClickSetsTargetOnly ==
    [][(/\ ev'.op = "message"
        /\ IsMove(ev'.message)
        /\ MoveMode(ev'.message.movement) = "click"
        /\ ev'.id \in DOMAIN players)
       => /\ players'[ev'.id].targetX
                = clamp(ev'.message.movement.x - 25, 0, 4046) * Unit
          /\ players'[ev'.id].targetY
                = clamp(ev'.message.movement.y - 25, 0, 4046) * Unit
          /\ players'[ev'.id].x = players[ev'.id].x
          /\ players'[ev'.id].y = players[ev'.id].y
          /\ players'[ev'.id].facing = players[ev'.id].facing
          /\ players'[ev'.id].isMoving = players[ev'.id].isMoving
          /\ players'[ev'.id].animationFrame = players[ev'.id].animationFrame
          /\ players'[ev'.id].sprite = players[ev'.id].sprite]_vars

\* A player that had stepped right from (0, 0) clicked far off the map to the
\* upper left: the target is the corner (0, 0) and the player is still at
\* (15, 0), facing east, isMoving set
ClickAfterKeyStep ==
    /\ ev.op = "message"
    /\ ev.message = ClickMsg(-99999, -99999)
    /\ ev.id \in DOMAIN players
    /\ players[ev.id].targetX = 0
    /\ players[ev.id].targetY = 0
    /\ players[ev.id].x = KeySpeed * Unit
    /\ players[ev.id].y = 0
    /\ players[ev.id].facing = "east"
    /\ players[ev.id].isMoving

\* ------------------------------------------------------- ticks and targets
\* The two records differ in animationFrame and lastAnimationUpdate at most
SameButAnimation(before, after) ==
    [after EXCEPT !.animationFrame = before.animationFrame,
                  !.lastAnimationUpdate = before.lastAnimationUpdate] = before

\* C21: a tick leaves alone every player that has no target when the tick
\* starts: if such a player has isMoving set (a keyboard step, also one that
\* superseded a pursuit) its whole record is unchanged, and if isMoving is not
\* set (idle, or stopped during a pursuit) at most its animationFrame and
\* lastAnimationUpdate change.  No tick creates or removes a record.
TickMovesPursuersOnly ==
    [][ev'.op = "tick"
       => /\ DOMAIN players' = DOMAIN players
          /\ \A id \in DOMAIN players :
                (players[id].targetX = Null \/ players[id].targetY = Null)
                    => IF players[id].isMoving
                       THEN players'[id] = players[id]
                       ELSE SameButAnimation(players[id], players'[id])]_vars

\* The player walked one tick towards (9, 12), stepped right as its third
\* message, and the tick that has just run left it at (16.8, 2.4), facing east,
\* isMoving set, without target
TickAfterSupersededPursuit ==
    /\ ev.op = "tick"
    /\ nmsg = 3
    /\ "a1" \in DOMAIN players
    /\ players["a1"].x = 9 + KeySpeed * Unit
    /\ players["a1"].y = 12
    /\ players["a1"].facing = "east"
    /\ players["a1"].isMoving
    /\ players["a1"].targetX = Null

\* ----------------------------------------------------------- animation frame
\* The step stamped the player's lastAnimationUpdate anew
Stamped(id) == players'[id].lastAnimationUpdate # players[id].lastAnimationUpdate

\* The step was an instant step of the player, or a tick
MayAdvance(id) ==
    \/ ev'.op = "tick"
    \/ /\ ev'.op = "message"
       /\ ev'.id = id
       /\ IsMove(ev'.message)
       /\ MoveMode(ev'.message.movement) = "direction"

\* C22: animationFrame is always 0, 1 or 2.  It changes either by a reset to 0
\* or by an advance; an advance is +1 mod 3 together with lastAnimationUpdate
\* set to the current time, and happens only in an instant step or a pursuit
\* step more than 200 ms after lastAnimationUpdate, or in the tick of a player
\* without target more than 1000 ms after it.  Nothing else writes
\* lastAnimationUpdate, so it is the time of the last advance (or of the join)
\* and two successive advances are more than 200 ms apart.
FrameAdvancesAfterPeriod ==
    [][\A id \in DOMAIN players \cap DOMAIN players' :
          /\ players'[id].animationFrame \in {0, 1, 2}
          /\ players'[id].lastAnimationUpdate <= now'
          /\ players'[id].animationFrame # players[id].animationFrame
                => Stamped(id) \/ players'[id].animationFrame = 0
          /\ Stamped(id)
                => /\ MayAdvance(id)
                   /\ players'[id].animationFrame = (players[id].animationFrame + 1) % 3
                   /\ players'[id].lastAnimationUpdate = now
                   /\ now - players[id].lastAnimationUpdate > 200
                   /\ (ev'.op = "tick" /\ players[id].targetX = Null)
                         => /\ now - players[id].lastAnimationUpdate > 1000
                            /\ ~players[id].isMoving]_vars

\* Joined at 0 ms, the player stepped right at 201 ms and its frame went to 1
FrameAdvancedJustAfterPeriod ==
    /\ ev.op = "message"
    /\ ev.message = DirectionMsg("right")
    /\ now = 201
    /\ "a1" \in DOMAIN players
    /\ players["a1"].animationFrame = 1
    /\ players["a1"].lastAnimationUpdate = 201

\* ----------------------------------------------------------- reconciliation
\* The folder holds one of the frame files the scan looks for, per direction
FolderComplete(folder) ==
    \A d \in {"north", "south", "east"} : \E f \in 1..3 : <<d, f>> \in folder.files

\* C23: the periodic scan of the sprite folders removes no catalog entry, and
\* it creates or changes the entry of a name only if that name has a folder
\* whose modification time is strictly greater than the entry's lastModified
\* (or the name has no entry) and which holds at least one frame file for each
\* of north, south and east; every other entry is exactly as it was.
ScanChangesNewerCompleteOnly ==
    [][ev'.op = "periodic"
       => /\ DOMAIN spriteDatabase \subseteq DOMAIN spriteDatabase'
          /\ \A n \in DOMAIN spriteDatabase' :
                (n \notin DOMAIN spriteDatabase \/ spriteDatabase'[n] # spriteDatabase[n])
                    => /\ n \in DOMAIN disk
                       /\ \/ n \notin DOMAIN spriteDatabase
                          \/ disk[n].mtime > spriteDatabase[n].lastModified
                       /\ FolderComplete(disk[n])]_vars

\* After a scan: "default", whose folder got a second east frame at 600 ms, is
\* registered with it, while the uploaded "ghost", as old as its folder, still
\* is the custom entry of the upload
ScanUpdatedOneKeptOther ==
    /\ ev.op = "periodic"
    /\ "default" \in DOMAIN spriteDatabase
    /\ spriteDatabase["default"].lastModified = 600
    /\ Len(spriteDatabase["default"].frames.east) = 2
    /\ "ghost" \in DOMAIN spriteDatabase
    /\ spriteDatabase["ghost"].custom
    /\ spriteDatabase["ghost"].lastModified = disk["ghost"].mtime

\* -------------------------------------------------------- unknown direction
\* C24: a move command without stop flag whose direction is a value other than
\* up, down, left and right, handled for a joined player, leaves that player's
\* record as it was (isMoving and target included) and no 'moved' update is
\* sent to anyone.
UnknownDirectionIgnored ==
    [][(/\ ev'.op = "message"
        /\ IsMove(ev'.message)
        /\ MoveMode(ev'.message.movement) = "direction"
        /\ ev'.message.movement.direction \notin {"up", "down", "left", "right"}
        /\ ev'.id \in DOMAIN players)
       => /\ players'[ev'.id] = players[ev'.id]
          /\ \A c \in Ids : UpdatesIn(out'[c], "player", "moved") = <<>>]_vars

\* ------------------------------------------------------- "does not exist"
\* The last handler told the sender that the sprite it asked for does not exist
ToldDoesNotExist ==
    /\ ev.op = "message"
    /\ IsChangeSprite(ev.message)
    /\ ev.message.spriteName # Absent
    /\ \E i \in 1..Len(Responses(ev.id)) :
          /\ ~Responses(ev.id)[i].success
          /\ Responses(ev.id)[i].error
                = "Sprite \"" \o ev.message.spriteName \o "\" does not exist"

\* C25: a change_sprite request is answered 'Sprite "<name>" does not exist'
\* only if the catalog has no sprite of that name when the request is handled,
\* whether or not the sender has joined.
DoesNotExistOnlyIfAbsent ==
    ToldDoesNotExist => ev.message.spriteName \notin DOMAIN spriteDatabase

\* -------------------------------------------------------------------- saves
\* C26: whenever no write of saveState() is in flight, PLAYERS_FILE holds the
\* registry as the most recently issued saveState() wrote it, in whatever order
\* the writes were issued and completed.
LastSaveWins ==
    writes = <<>> => playersFile = lastSave

====
